---- MODULE Spec2Model ----
(***************************************************************************)
(* Client-side session lifecycle of the Blossom app: the key-value store   *)
(* (utils/storage.ts), the Session Store (store/authStore.ts), the API     *)
(* client interceptors (services/api.ts) and the startup resolution of     *)
(* the root layout (app/_layout.tsx).                                      *)
(*                                                                         *)
(* store/authStore.ts exists in two revisions that differ only in calling  *)
(* the storage module or SecureStore directly; the model follows the one   *)
(* that calls storage, which on native is the same SecureStore call.       *)
(*                                                                         *)
(* Asynchrony.  Every `await` on a storage call is a point where other     *)
(* tasks run.  A storage call is an entry of `pending` from the moment it  *)
(* is issued until the awaiting code resumes.  On web the call touches     *)
(* localStorage synchronously when it is issued and the awaiting code      *)
(* resumes in a microtask, in issue order, before any further event.  On   *)
(* native the call is handed to the secure-store module: it takes effect   *)
(* when it completes, and calls complete in any order.                     *)
(***************************************************************************)
EXTENDS Integers, Sequences, FiniteSets, TLC

\* ---------------------------------------------------------------- bounds
MaxFaults == 1     \* persistence faults the platform may raise in one run
MaxInFlight == 2   \* calls and requests in flight when a screen starts another

\* ---------------------------------------------------------------- values
Null == "null"                 \* null: no token, no user
Tokens == {"t1", "t2"}         \* bearer credentials (non-empty strings)
Users == {"u1", "u2"}          \* profile records
Platforms == {"native", "web"} \* Platform.OS, "native" for ios and android

\* the profile the backend returns for a credential: login's response carries
\* access_token and user together, /auth/me answers for the bearer
Owner(token) == IF token = "t1" THEN "u1" ELSE "u2"

\* `!!x`, `if (x)`: null and the empty string are falsy
Truthy(x) == x \notin {Null, ""}

VARIABLES
  platform,        \* Platform.OS of this run
  apiSecureStore,  \* what the name SecureStore resolves to in services/api.ts
  profileEndpoint, \* what GET /auth/me answers in this run
  store,           \* the zustand state: user, token, isLoading, isAuthenticated
  localStorage,    \* the browser's record under 'auth_token'
  secureStore,     \* expo-secure-store's record under 'auth_token'
  pending,         \* storage calls issued and not yet resumed from
  net,             \* requests sent and not yet answered
  loadAuthPc,      \* position of loadAuth()
  foundToken,      \* loadAuth's local `token`, "unread" until it is assigned
  getMeResult,     \* how loadAuth's `await authAPI.getMe()` ended
  apiCalled,       \* some call through the API client was attempted
  unhandled,       \* promises rejected with nobody awaiting them
  last,            \* the last settled call of the Session Store or of storage
  faultBudget,     \* persistence faults the platform may still raise
  isLoggingOut,    \* ProfileScreen's state of that name
  logoutResult,    \* how performLogout's `await authAPI.logout()` ended
  segment,         \* useSegments()[0], "landing" for the index route
  navigations,     \* the targets of the route guard's router.replace calls
  guardSeen        \* the dependencies the guard effect last ran with

vars == << platform, apiSecureStore, profileEndpoint, store, localStorage,
           secureStore, pending, net, loadAuthPc, foundToken, getMeResult,
           apiCalled, unhandled, last, faultBudget, isLoggingOut,
           logoutResult, segment, navigations, guardSeen >>

logoutVars == << isLoggingOut, logoutResult >>
routeVars == << segment, navigations, guardSeen >>

\* ------------------------------------------------------- Session Store
\* create<AuthState>((set) => ({ user: null, token: null, isLoading: true, ... }))
InitialState ==
  [user |-> Null, token |-> Null, isLoading |-> TRUE, isAuthenticated |-> FALSE]

\* zustand's set(partial): a shallow merge into the state
Merge(st, partial) ==
  [f \in DOMAIN st |-> IF f \in DOMAIN partial THEN partial[f] ELSE st[f]]

\* set({ user, isAuthenticated: !!user })
SetUserUpdate(user) == [user |-> user, isAuthenticated |-> Truthy(user)]

\* variant: the flag is not recomputed
SetTokenUpdate_NoFlag(token) == [token |-> token]
\* set({ token, isAuthenticated: !!token })
SetTokenUpdate(token) == [token |-> token, isAuthenticated |-> Truthy(token)]

\* set({ isLoading: loading })
SetLoadingUpdate(loading) == [isLoading |-> loading]

\* variant: the profile is kept
LogoutUpdate_KeepsUser == [token |-> Null, isAuthenticated |-> FALSE]
\* set({ user: null, token: null, isAuthenticated: false })
LogoutUpdate == [user |-> Null, token |-> Null, isAuthenticated |-> FALSE]

\* variant: isLoading: true
LoginUpdate_Reloading(token, user) ==
  [token |-> token, user |-> user, isAuthenticated |-> TRUE, isLoading |-> TRUE]
\* set({ token, user, isAuthenticated: true, isLoading: false })
LoginUpdate(token, user) ==
  [token |-> token, user |-> user, isAuthenticated |-> TRUE, isLoading |-> FALSE]

\* ------------------------------------------------------ Key-Value Store
\* variant: a delete leaves the record in place
ApplyKV_DeleteKeeps(record, op, val) ==
  IF op = "set" THEN val ELSE record
\* what a completed call leaves in the record it addresses
ApplyKV(record, op, val) ==
  IF op = "set" THEN val ELSE IF op = "del" THEN Null ELSE record

\* the storage state a step works on
Ctx == [pending |-> pending, localStorage |-> localStorage,
        secureStore |-> secureStore, faultBudget |-> faultBudget]

SetCtx(c) ==
  /\ pending' = c.pending
  /\ localStorage' = c.localStorage
  /\ secureStore' = c.secureStore
  /\ faultBudget' = c.faultBudget

Entry(op, val, sync, ok, rd, k, caller, token, user) ==
  [op |-> op, val |-> val, sync |-> sync, ok |-> ok, rd |-> rd, k |-> k,
   caller |-> caller, token |-> token, user |-> user]

\* the faults the platform may raise in a call issued (web) or completed (native)
Faults(c) == IF c.faultBudget > 0 THEN BOOLEAN ELSE {FALSE}

\* storage.getItem / setItem / deleteItem('auth_token'): localStorage on web,
\* touched at once; SecureStore.*Async on native, in flight until it completes
StorageCall(c, op, val, k, caller, token, user, f) ==
  IF platform = "web"
  THEN [c EXCEPT
          !.pending = Append(@, Entry(op, val, TRUE, ~f, c.localStorage, k,
                                      caller, token, user)),
          !.localStorage = IF f THEN @ ELSE ApplyKV(@, op, val),
          !.faultBudget = IF f THEN @ - 1 ELSE @]
  ELSE [c EXCEPT
          !.pending = Append(@, Entry(op, val, FALSE, TRUE, Null, k,
                                      caller, token, user))]

\* the faults that may be chosen when storage is called
CallFaults(c) == IF platform = "web" THEN Faults(c) ELSE {FALSE}

\* variant: on web too the awaiting code resumes in any order
Resumable_AnyOrder == DOMAIN pending
\* entries whose awaiting code may resume now
Resumable == IF platform = "web" THEN {1} \cap DOMAIN pending ELSE DOMAIN pending

\* the faults that may be chosen when entry i completes
SettleFaults(i) == IF pending[i].sync THEN {FALSE} ELSE Faults(Ctx)

Without(s, i) == [j \in 1 .. (Len(s) - 1) |-> IF j < i THEN s[j] ELSE s[j + 1]]

\* entry i completes: the storage state after it
Settle(i, f) ==
  LET e == pending[i] IN
  [pending |-> Without(pending, i),
   localStorage |-> localStorage,
   secureStore |-> IF e.sync \/ f THEN secureStore
                   ELSE ApplyKV(secureStore, e.op, e.val),
   faultBudget |-> IF f THEN faultBudget - 1 ELSE faultBudget]

\* variant: the code after the await runs whether or not the call succeeded
SettledOk_Always(i, f) == TRUE
\* did the call of entry i succeed, and what did it read
SettledOk(i, f) == IF pending[i].sync THEN pending[i].ok ELSE ~f
SettledValue(i) == IF pending[i].sync THEN pending[i].rd ELSE secureStore

\* the error a failed call rejects with
SettledError(i) ==
  IF pending[i].op # "none" THEN "storageFault"
  ELSE IF apiSecureStore = "unbound" THEN "ReferenceError" ELSE "unavailable"

\* a macrotask (a user event, a network response) runs only once the
\* microtasks are drained; native completions are macrotasks themselves
MacrotaskReady == platform = "native" \/ pending = << >>

\* what storage.getItem('auth_token') returns now
StorageRead == IF platform = "web" THEN localStorage ELSE secureStore

\* what is left unchanged by a step that touches only the storage state
\* and the listed Session fields
Frame == UNCHANGED << platform, apiSecureStore, profileEndpoint >>

\* ------------------------------------------- Session Store: async calls
\* setToken, up to its await: storage.setItem(token) or storage.deleteItem()
SetTokenCall(c, token, caller, f) ==
  IF Truthy(token)
  THEN StorageCall(c, "set", token, "setToken", caller, token, Null, f)
  ELSE StorageCall(c, "del", Null, "setToken", caller, token, Null, f)

\* login, up to its await: storage.setItem('auth_token', token)
LoginCall(c, token, user, caller, f) ==
  StorageCall(c, "set", token, "login", caller, token, user, f)

\* variant: logout awaits a storage call that deletes nothing
LogoutCall_NoDelete(c, caller, f) ==
  StorageCall(c, "get", Null, "logout", caller, Null, Null, f)
\* logout, up to its await: storage.deleteItem('auth_token')
LogoutCall(c, caller, f) ==
  StorageCall(c, "del", Null, "logout", caller, Null, Null, f)

setToken(token, caller) ==
  /\ \E f \in CallFaults(Ctx) : SetCtx(SetTokenCall(Ctx, token, caller, f))
  /\ Frame
  /\ UNCHANGED << logoutVars, routeVars >>
  /\ UNCHANGED << store, net, loadAuthPc, foundToken, getMeResult, apiCalled,
                  unhandled, last >>

login(token, user, caller) ==
  /\ \E f \in CallFaults(Ctx) : SetCtx(LoginCall(Ctx, token, user, caller, f))
  /\ Frame
  /\ UNCHANGED << logoutVars, routeVars >>
  /\ UNCHANGED << store, net, loadAuthPc, foundToken, getMeResult, apiCalled,
                  unhandled, last >>

logout(caller) ==
  /\ \E f \in CallFaults(Ctx) : SetCtx(LogoutCall(Ctx, caller, f))
  /\ Frame
  /\ UNCHANGED << logoutVars, routeVars >>
  /\ UNCHANGED << store, net, loadAuthPc, foundToken, getMeResult, apiCalled,
                  unhandled, last >>

\* a rejected call nobody awaits is an unhandled rejection: loadAuth calls
\* setToken(token) without await; performLogout awaits logout() in its
\* finally block and is itself an onPress handler nobody awaits
Escapes(e, ok) ==
  IF ~ok /\ e.caller \in {"loadAuth", "performLogout"} THEN {e.k} ELSE {}

\* variant: the state is set although the storage call faulted
SetTokenSet_OnFault(st, ok, token) == Merge(st, SetTokenUpdate(token))
\* setToken's set(...) call, reached only if the awaited call did not fault
SetTokenSet(st, ok, token) ==
  IF ok THEN Merge(st, SetTokenUpdate(token)) ELSE st

\* setToken after its await: set({ token, isAuthenticated: !!token }), or
\* the fault of the storage call propagates and the state is not set
setTokenSettled ==
  \E i \in Resumable : \E f \in SettleFaults(i) :
    LET e == pending[i]
        ok == SettledOk(i, f) IN
    /\ e.k = "setToken"
    /\ SetCtx(Settle(i, f))
    /\ store' = SetTokenSet(store, ok, e.token)
    /\ last' = [op |-> "setToken", token |-> e.token, user |-> Null, ok |-> ok]
    /\ unhandled' = unhandled \cup Escapes(e, ok)
    /\ Frame
    /\ UNCHANGED << logoutVars, routeVars >>
    /\ UNCHANGED << net, loadAuthPc, foundToken, getMeResult, apiCalled >>

\* LoginScreen.handleLogin after `await login(...)`: router.replace('/(tabs)')
AfterLogin(caller, ok, now) ==
  IF caller = "handleLogin" /\ ok THEN "(tabs)" ELSE now

\* variant: the flag and the token are set first, the profile in a later set
LoginSet_FlagFirst(st, ok, token, user) ==
  IF ok THEN Merge(st, [token |-> token, isAuthenticated |-> TRUE]) ELSE st
\* login's one set(...) call, reached only if the awaited write did not fault
LoginSet(st, ok, token, user) ==
  IF ok THEN Merge(st, LoginUpdate(token, user)) ELSE st

\* login after its await
loginSettled ==
  \E i \in Resumable : \E f \in SettleFaults(i) :
    LET e == pending[i]
        ok == SettledOk(i, f) IN
    /\ e.k = "login"
    /\ SetCtx(Settle(i, f))
    /\ store' = LoginSet(store, ok, e.token, e.user)
    /\ last' = [op |-> "login", token |-> e.token, user |-> e.user, ok |-> ok]
    /\ segment' = AfterLogin(e.caller, ok, segment)
    /\ Frame
    /\ UNCHANGED << logoutVars, navigations, guardSeen >>
    /\ UNCHANGED << net, loadAuthPc, foundToken, getMeResult, apiCalled,
                    unhandled >>

\* performLogout after `await logout()`: setIsLoggingOut(false);
\* router.replace('/'); a logout that rejected leaves both undone
AfterLogout(caller, ok, then, now) ==
  IF caller = "performLogout" /\ ok THEN then ELSE now

\* logout after its await
logoutSettled ==
  \E i \in Resumable : \E f \in SettleFaults(i) :
    LET e == pending[i]
        ok == SettledOk(i, f) IN
    /\ e.k = "logout"
    /\ SetCtx(Settle(i, f))
    /\ store' = IF ok THEN Merge(store, LogoutUpdate) ELSE store
    /\ last' = [op |-> "logout", token |-> Null, user |-> Null, ok |-> ok]
    /\ isLoggingOut' = AfterLogout(e.caller, ok, FALSE, isLoggingOut)
    /\ segment' = AfterLogout(e.caller, ok, "landing", segment)
    /\ unhandled' = unhandled \cup Escapes(e, ok)
    /\ Frame
    /\ UNCHANGED << logoutResult, navigations, guardSeen >>
    /\ UNCHANGED << net, loadAuthPc, foundToken, getMeResult, apiCalled >>

\* -------------------------------------------- Session Store: sync calls
setUser(user) ==
  /\ store' = Merge(store, SetUserUpdate(user))
  /\ Frame
  /\ UNCHANGED << logoutVars, routeVars >>
  /\ UNCHANGED << localStorage, secureStore, pending, net, loadAuthPc,
                  foundToken, getMeResult, apiCalled, unhandled, last,
                  faultBudget >>

setLoading(loading) ==
  /\ store' = Merge(store, SetLoadingUpdate(loading))
  /\ Frame
  /\ UNCHANGED << logoutVars, routeVars >>
  /\ UNCHANGED << localStorage, secureStore, pending, net, loadAuthPc,
                  foundToken, getMeResult, apiCalled, unhandled, last,
                  faultBudget >>

\* ------------------------------------------------------------ API client
\* services/api.ts imports `storage` and then calls SecureStore.getItemAsync
\* and SecureStore.deleteItemAsync: the name has no binding in the module
\* ("unbound": evaluating it throws a ReferenceError inside the interceptor)
\* unless the build supplies expo-secure-store under it ("expo"), which
\* addresses the native secure store and has no implementation on web, where
\* its calls reject.  A call that throws or rejects resumes the awaiting
\* code like a failed storage call, touching no record.
SecureStoreWorksOn(os) == apiSecureStore = "expo" /\ os = "native"

SecureStoreWorks == SecureStoreWorksOn(platform)

SecureStoreCall(c, op, k, caller) ==
  IF SecureStoreWorks
  THEN [c EXCEPT !.pending = Append(@, Entry(op, Null, FALSE, TRUE, Null, k,
                                             caller, Null, Null))]
  ELSE [c EXCEPT !.pending = Append(@, Entry("none", Null, TRUE, FALSE, Null, k,
                                             caller, Null, Null))]

\* api.get / api.post: the request interceptor runs first,
\* `const token = await SecureStore.getItemAsync('auth_token')`
ApiCall(c, caller) == SecureStoreCall(c, "get", "request", caller)

\* `if (token) config.headers.Authorization = `Bearer ${token}``
Authorization(token) == IF Truthy(token) THEN token ELSE Null

\* what the API client's read of the token yields on platform `os` when the
\* secure store holds `record`
ApiReadOn(os, record) ==
  IF SecureStoreWorksOn(os) THEN record
  ELSE IF apiSecureStore = "unbound" THEN "ReferenceError" ELSE "unavailable"

\* what the API client's read of the token yields now
ApiRead == ApiReadOn(platform, secureStore)

\* --------------------------------------------------- startup resolution
\* variant: no finally block
Finally_Skipped(st) == st
\* finally { setLoading(false) }
Finally(st) == Merge(st, SetLoadingUpdate(FALSE))

LoadAuthState(c, st, pc, tok, called) ==
  [ctx |-> c, store |-> st, loadAuthPc |-> pc, foundToken |-> tok,
   apiCalled |-> called]

\* catch (error) { try { await storage.deleteItem('auth_token') } ... }
Catch(c, st, tok, called, f) ==
  LoadAuthState(
    StorageCall(c, "del", Null, "loadAuth.deleteItem", "loadAuth", Null, Null, f),
    st, "awaitDelete", tok, called)

\* variant: no `if (token)` around the body
AfterGetItem_AlwaysFetch(c, st, ok, token, f) ==
  IF ~ok THEN Catch(c, st, foundToken, apiCalled, f)
  ELSE LoadAuthState(ApiCall(SetTokenCall(c, token, "loadAuth", f), "loadAuth"),
                     st, "awaitGetMe", token, TRUE)
\* loadAuth after `const token = await storage.getItem('auth_token')`:
\* if (token) { setToken(token); ... await authAPI.getMe() ... }
AfterGetItem(c, st, ok, token, f) ==
  IF ~ok THEN Catch(c, st, foundToken, apiCalled, f)
  ELSE IF Truthy(token)
  THEN LoadAuthState(ApiCall(SetTokenCall(c, token, "loadAuth", f), "loadAuth"),
                     st, "awaitGetMe", token, TRUE)
  ELSE LoadAuthState(c, Finally(st), "done", token, apiCalled)

\* loadAuth after `const response = await authAPI.getMe()`:
\* setUser(response.data), or the catch block
AfterGetMe(c, st, ok, data, f) ==
  IF ok
  THEN LoadAuthState(c, Finally(Merge(st, SetUserUpdate(data))), "done",
                     foundToken, apiCalled)
  ELSE Catch(c, st, foundToken, apiCalled, f)

\* variant: the local logout is in the try block, after the remote call
AfterRemoteLogout_InTry(c, ok, f) ==
  IF ok THEN LogoutCall(c, "performLogout", f) ELSE c
\* performLogout after `await authAPI.logout()`, however it ended:
\* catch { console.log } finally { await logout(); ... }
AfterRemoteLogout(c, ok, f) == LogoutCall(c, "performLogout", f)

\* how `await authAPI.logout()` ended
LogoutEnded(caller, how) == IF caller = "performLogout" THEN how ELSE logoutResult

\* variant: a failed request of a screen clears the in-memory Session
ApiSettled_ClearsSession(c, st, caller, ok, data, f) ==
  IF caller = "loadAuth" THEN AfterGetMe(c, st, ok, data, f)
  ELSE IF caller = "performLogout"
  THEN LoadAuthState(AfterRemoteLogout(c, ok, f), st, loadAuthPc, foundToken, apiCalled)
  ELSE LoadAuthState(c, IF ok THEN st ELSE Merge(st, LogoutUpdate),
                     loadAuthPc, foundToken, apiCalled)
\* the caller of an API call resumes: loadAuth, performLogout, or a screen
\* that logs the error or keeps the data in component state
ApiSettled(c, st, caller, ok, data, f) ==
  IF caller = "loadAuth" THEN AfterGetMe(c, st, ok, data, f)
  ELSE IF caller = "performLogout"
  THEN LoadAuthState(AfterRemoteLogout(c, ok, f), st, loadAuthPc, foundToken, apiCalled)
  ELSE LoadAuthState(c, st, loadAuthPc, foundToken, apiCalled)

SetLoadAuthState(r) ==
  /\ SetCtx(r.ctx)
  /\ store' = r.store
  /\ loadAuthPc' = r.loadAuthPc
  /\ foundToken' = r.foundToken
  /\ apiCalled' = r.apiCalled

\* how `await authAPI.getMe()` ended: "success" or the error it rejected with
GetMeEnded(caller, how) == IF caller = "loadAuth" THEN how ELSE getMeResult

\* useEffect(() => { loadAuth(); ... }, []): up to the first await
loadAuthStart ==
  /\ loadAuthPc = "mount"
  /\ \E f \in CallFaults(Ctx) :
       SetCtx(StorageCall(Ctx, "get", Null, "loadAuth.getItem", "loadAuth",
                          Null, Null, f))
  /\ loadAuthPc' = "awaitGetItem"
  /\ Frame
  /\ UNCHANGED << logoutVars, routeVars >>
  /\ UNCHANGED << store, net, foundToken, getMeResult, apiCalled, unhandled,
                  last >>

loadAuthGetItemSettled ==
  \E i \in Resumable : \E f \in SettleFaults(i) :
    /\ pending[i].k = "loadAuth.getItem"
    /\ \E f2 \in CallFaults(Settle(i, f)) :
         SetLoadAuthState(AfterGetItem(Settle(i, f), store, SettledOk(i, f),
                                       SettledValue(i), f2))
    /\ Frame
    /\ UNCHANGED << logoutVars, routeVars >>
    /\ UNCHANGED << net, getMeResult, unhandled, last >>

\* the delete of the catch block settles; its own fault is caught and logged
loadAuthDeleteSettled ==
  \E i \in Resumable : \E f \in SettleFaults(i) :
    /\ pending[i].k = "loadAuth.deleteItem"
    /\ SetCtx(Settle(i, f))
    /\ store' = Finally(store)
    /\ loadAuthPc' = "done"
    /\ Frame
    /\ UNCHANGED << logoutVars, routeVars >>
    /\ UNCHANGED << net, foundToken, getMeResult, apiCalled, unhandled, last >>

\* ------------------------------------------- API client: request, response
\* the request interceptor resumes: the request goes out, with the header
\* if a token was read; or the interceptor's rejection reaches the caller
\* (the response error handler passes it on: it carries no response)
requestSettled ==
  \E i \in Resumable : \E f \in SettleFaults(i) :
    LET e == pending[i]
        ok == SettledOk(i, f)
        c == Settle(i, f) IN
    /\ e.k = "request"
    /\ IF ok
       THEN /\ net' = Append(net, [caller |-> e.caller,
                                   authorization |-> Authorization(SettledValue(i))])
            /\ SetCtx(c)
            /\ UNCHANGED << store, loadAuthPc, foundToken, apiCalled, getMeResult,
                            logoutResult >>
       ELSE /\ \E f2 \in CallFaults(c) :
                 SetLoadAuthState(ApiSettled(c, store, e.caller, FALSE, Null, f2))
            /\ getMeResult' = GetMeEnded(e.caller, SettledError(i))
            /\ logoutResult' = LogoutEnded(e.caller, SettledError(i))
            /\ net' = net
    /\ Frame
    /\ UNCHANGED << isLoggingOut, routeVars >>
    /\ UNCHANGED << unhandled, last >>

\* what the backend may answer: /auth/me as fixed for the run, any other
\* endpoint anything
Answers(caller) ==
  IF caller = "loadAuth" THEN {profileEndpoint} ELSE {"success", "401", "networkFault"}

\* response.data of a successful answer
Profiles(authorization) ==
  IF Truthy(authorization) THEN {Owner(authorization)} ELSE Users

\* (response) => response
responseSuccess ==
  \E i \in DOMAIN net : \E data \in Profiles(net[i].authorization) :
    /\ MacrotaskReady
    /\ "success" \in Answers(net[i].caller)
    /\ net' = Without(net, i)
    /\ \E f \in CallFaults(Ctx) :
         SetLoadAuthState(ApiSettled(Ctx, store, net[i].caller, TRUE, data, f))
    /\ getMeResult' = GetMeEnded(net[i].caller, "success")
    /\ logoutResult' = LogoutEnded(net[i].caller, "success")
    /\ Frame
    /\ UNCHANGED << isLoggingOut, routeVars >>
    /\ UNCHANGED << unhandled, last >>

\* a transport fault: error.response is undefined, the error is passed on
responseNetworkFault ==
  \E i \in DOMAIN net : \E f \in CallFaults(Ctx) :
    /\ MacrotaskReady
    /\ "networkFault" \in Answers(net[i].caller)
    /\ net' = Without(net, i)
    /\ SetLoadAuthState(ApiSettled(Ctx, store, net[i].caller, FALSE, Null, f))
    /\ getMeResult' = GetMeEnded(net[i].caller, "networkFault")
    /\ logoutResult' = LogoutEnded(net[i].caller, "networkFault")
    /\ Frame
    /\ UNCHANGED << isLoggingOut, routeVars >>
    /\ UNCHANGED << unhandled, last >>

\* the error handler holds `error`, whose config has the headers the request
\* was sent with: the call just started is tagged with that credential
Carrying(c, authorization) ==
  [c EXCEPT !.pending[Len(c.pending)].token = authorization]

\* if (error.response?.status === 401) await SecureStore.deleteItemAsync(...)
response401 ==
  \E i \in DOMAIN net :
    /\ MacrotaskReady
    /\ "401" \in Answers(net[i].caller)
    /\ net' = Without(net, i)
    /\ SetCtx(Carrying(SecureStoreCall(Ctx, "del", "response401", net[i].caller),
                       net[i].authorization))
    /\ Frame
    /\ UNCHANGED << logoutVars, routeVars >>
    /\ UNCHANGED << store, loadAuthPc, foundToken, getMeResult, apiCalled,
                    unhandled, last >>

\* return Promise.reject(error), or the fault of the delete instead
response401Settled ==
  \E i \in Resumable : \E f \in SettleFaults(i) :
    LET e == pending[i]
        c == Settle(i, f) IN
    /\ e.k = "response401"
    /\ \E f2 \in CallFaults(c) :
         SetLoadAuthState(ApiSettled(c, store, e.caller, FALSE, Null, f2))
    /\ getMeResult' = GetMeEnded(e.caller, IF SettledOk(i, f) THEN "401"
                                            ELSE SettledError(i))
    /\ logoutResult' = LogoutEnded(e.caller, IF SettledOk(i, f) THEN "401"
                                             ELSE SettledError(i))
    /\ net' = net
    /\ Frame
    /\ UNCHANGED << isLoggingOut, routeVars >>
    /\ UNCHANGED << unhandled, last >>

\* ----------------------------------------------------------------- screens
\* RootLayout renders the spinner instead of the Stack while isLoading, so
\* a screen acts only once isLoading is false
ScreenReady ==
  /\ ~store.isLoading
  /\ MacrotaskReady
  /\ Len(pending) + Len(net) < MaxInFlight

\* LoginScreen.handleLogin / IndexScreen.handleGoogleLogin, once the
\* credential exchange has answered with a credential and its profile:
\* await login(response.data.access_token, response.data.user)
handleLogin ==
  \E token \in Tokens :
    ScreenReady /\ login(token, Owner(token), "handleLogin")

\* IndexScreen renders nothing once authenticated; on web handleGoogleLogin
\* leaves the page instead (window.location.href = authUrl)
handleGoogleLogin ==
  \E token \in Tokens :
    /\ ScreenReady
    /\ ~store.isAuthenticated
    /\ platform = "native"
    /\ login(token, Owner(token), "handleGoogleLogin")

\* ProfileScreen.performLogout up to its first await: setIsLoggingOut(true);
\* await authAPI.logout().  The Logout button is disabled while isLoggingOut.
performLogout ==
  /\ ScreenReady
  /\ ~isLoggingOut
  /\ SetCtx(ApiCall(Ctx, "performLogout"))
  /\ isLoggingOut' = TRUE
  /\ logoutResult' = "none"
  /\ apiCalled' = TRUE
  /\ Frame
  /\ UNCHANGED routeVars
  /\ UNCHANGED << store, net, loadAuthPc, foundToken, getMeResult, unhandled,
                  last >>

\* a screen fetches through the API client (postAPI.getAll, ...)
screenApiCall ==
  /\ ScreenReady
  /\ SetCtx(ApiCall(Ctx, "screen"))
  /\ apiCalled' = TRUE
  /\ Frame
  /\ UNCHANGED << logoutVars, routeVars >>
  /\ UNCHANGED << store, net, loadAuthPc, foundToken, getMeResult, unhandled,
                  last >>

\* ------------------------------------------------------------ Route Guard
\* segments[0] of the routes the Stack declares; "landing" is the index
\* route, whose segments[0] is undefined
Segments == {"landing", "(auth)", "(tabs)", "post", "forum", "group",
             "resources", "premium"}

\* the effect has not run yet: no dependencies to compare with
NoDeps == [isAuthenticated |-> FALSE, segment |-> "none", isLoading |-> FALSE]

\* [isAuthenticated, segments, isLoading] of the current render
Deps == [isAuthenticated |-> store.isAuthenticated, segment |-> segment,
         isLoading |-> store.isLoading]

\* const inAuthGroup = segments[0] === '(auth)'
inAuthGroup(seg) == seg = "(auth)"

\* variant: the tabbed group is not recognised
inTabsGroup_Never(seg) == FALSE
\* const inTabsGroup = segments[0] === '(tabs)'
inTabsGroup(seg) == seg = "(tabs)"

\* variant: no `if (isLoading) return`
GuardTarget_NoLoadingCheck(d) ==
  IF ~d.isAuthenticated /\ ~inAuthGroup(d.segment) THEN "landing"
  ELSE IF d.isAuthenticated /\ ~inTabsGroup(d.segment) /\ d.segment # "post"
          /\ d.segment # "forum" /\ d.segment # "group"
          /\ d.segment # "resources" /\ d.segment # "premium"
  THEN "(tabs)"
  ELSE "none"
\* the body of the guard effect: where it router.replace()s to, if anywhere
GuardTarget(d) ==
  IF d.isLoading THEN "none"
  ELSE IF ~d.isAuthenticated /\ ~inAuthGroup(d.segment) THEN "landing"
  ELSE IF d.isAuthenticated /\ ~inTabsGroup(d.segment) /\ d.segment # "post"
          /\ d.segment # "forum" /\ d.segment # "group"
          /\ d.segment # "resources" /\ d.segment # "premium"
  THEN "(tabs)"
  ELSE "none"

\* the effect is re-run by the guard's own last router.replace and by
\* nothing else: the dependencies are what that navigation left behind
OwnRerun ==
  /\ navigations # << >>
  /\ Deps = [guardSeen EXCEPT !.segment = navigations[Len(navigations)]]

\* the forced navigations since something other than the guard last changed
\* the dependencies, this evaluation's included
Forced(target) ==
  (IF OwnRerun THEN navigations ELSE << >>)
    \o (IF target = "none" THEN << >> ELSE << target >>)

\* variant: the effect evaluates its conditions and calls no router.replace
routeGuard_NoReplace ==
  /\ MacrotaskReady
  /\ guardSeen # Deps
  /\ guardSeen' = Deps
  /\ navigations' = Forced("none")
  /\ segment' = segment
  /\ Frame
  /\ UNCHANGED logoutVars
  /\ UNCHANGED << store, localStorage, secureStore, pending, net, loadAuthPc,
                  foundToken, getMeResult, apiCalled, unhandled, last,
                  faultBudget >>
\* useEffect(() => { ... }, [isAuthenticated, segments, isLoading]): runs
\* after the first render and after every render in which a dependency
\* differs from the previous one (segments compared by their content)
routeGuard ==
  /\ MacrotaskReady
  /\ guardSeen # Deps
  /\ guardSeen' = Deps
  /\ navigations' = Forced(GuardTarget(Deps))
  /\ segment' = IF GuardTarget(Deps) = "none" THEN segment ELSE GuardTarget(Deps)
  /\ Frame
  /\ UNCHANGED logoutVars
  /\ UNCHANGED << store, localStorage, secureStore, pending, net, loadAuthPc,
                  foundToken, getMeResult, apiCalled, unhandled, last,
                  faultBudget >>

\* where the user can go from a screen: the landing screen's buttons push
\* the auth group (it renders nothing once authenticated), the tabs push the
\* detail and top-level screens, every other screen has router.back()
Links(seg) ==
  IF seg = "landing" THEN (IF store.isAuthenticated THEN {} ELSE {"(auth)"})
  ELSE IF seg = "(auth)" THEN {"landing"}
  ELSE IF seg = "(tabs)" THEN {"post", "forum", "group", "resources", "premium"}
  ELSE {"(tabs)"}

\* the user follows a link; the Stack is rendered only once isLoading is false
navigate ==
  \E to \in Links(segment) :
    /\ ~store.isLoading
    /\ MacrotaskReady
    /\ segment' = to
    /\ Frame
    /\ UNCHANGED logoutVars
    /\ UNCHANGED << store, localStorage, secureStore, pending, net, loadAuthPc,
                    foundToken, getMeResult, apiCalled, unhandled, last,
                    faultBudget, navigations, guardSeen >>

\* ---------------------------------- a client of the Key-Value Store
\* the string values a caller may store, the empty string among them
Values == Tokens \cup {""}

\* storage.getItem('auth_token'), called when the call before has settled
kvGetItem ==
  /\ pending = << >>
  /\ \E f \in CallFaults(Ctx) :
       SetCtx(StorageCall(Ctx, "get", Null, "kv", "client", Null, Null, f))
  /\ Frame
  /\ UNCHANGED << logoutVars, routeVars >>
  /\ UNCHANGED << store, net, loadAuthPc, foundToken, getMeResult, apiCalled,
                  unhandled, last >>

\* storage.setItem('auth_token', value)
kvSetItem ==
  \E value \in Values :
    /\ pending = << >>
    /\ \E f \in CallFaults(Ctx) :
         SetCtx(StorageCall(Ctx, "set", value, "kv", "client", value, Null, f))
    /\ Frame
    /\ UNCHANGED << logoutVars, routeVars >>
    /\ UNCHANGED << store, net, loadAuthPc, foundToken, getMeResult, apiCalled,
                    unhandled, last >>

\* storage.deleteItem('auth_token')
kvDeleteItem ==
  /\ pending = << >>
  /\ \E f \in CallFaults(Ctx) :
       SetCtx(StorageCall(Ctx, "del", Null, "kv", "client", Null, Null, f))
  /\ Frame
  /\ UNCHANGED << logoutVars, routeVars >>
  /\ UNCHANGED << store, net, loadAuthPc, foundToken, getMeResult, apiCalled,
                  unhandled, last >>

\* the method of `storage` a call entry stands for
Method(op) ==
  IF op = "get" THEN "getItem" ELSE IF op = "set" THEN "setItem" ELSE "deleteItem"

\* the caller resumes from the call: what it passed or was returned
kvSettled ==
  \E i \in Resumable : \E f \in SettleFaults(i) :
    LET e == pending[i] IN
    /\ e.k = "kv"
    /\ SetCtx(Settle(i, f))
    /\ last' = [op |-> Method(e.op),
                token |-> IF e.op = "get" THEN SettledValue(i) ELSE e.val,
                user |-> Null, ok |-> SettledOk(i, f)]
    /\ Frame
    /\ UNCHANGED << logoutVars, routeVars >>
    /\ UNCHANGED << store, net, loadAuthPc, foundToken, getMeResult, apiCalled,
                    unhandled >>

\* ------------------------------- a client of the Session Store's interface
\* each call is allowed to settle before the next starts
clientSetToken ==
  \E token \in Tokens \cup {Null} : pending = << >> /\ setToken(token, "client")

\* two setToken calls that overlap: the second is made before the
\* continuation of the first has run
overlappingSetToken ==
  \E first \in Tokens \cup {Null}, second \in Tokens \cup {Null} :
    /\ pending = << >>
    /\ \E f1 \in CallFaults(Ctx) :
         LET c1 == SetTokenCall(Ctx, first, "client", f1) IN
         \E f2 \in (IF platform = "web" THEN Faults(c1) ELSE {FALSE}) :
           SetCtx(SetTokenCall(c1, second, "client", f2))
    /\ Frame
    /\ UNCHANGED << logoutVars, routeVars >>
    /\ UNCHANGED << store, net, loadAuthPc, foundToken, getMeResult, apiCalled,
                    unhandled, last >>

clientLogin ==
  \E token \in Tokens, user \in Users :
    pending = << >> /\ login(token, user, "client")

clientLogout == pending = << >> /\ logout("client")

clientSetUser == \E user \in Users \cup {Null} : pending = << >> /\ setUser(user)

clientSetLoading == \E loading \in BOOLEAN : pending = << >> /\ setLoading(loading)

\* ---------------------------------------------------------- specifications
\* the state at process start, the app being opened at one of `routes` and
\* the platform being allowed `budget` faults
InitAt(budget, routes) ==
  /\ platform \in Platforms
  /\ apiSecureStore \in {"unbound", "expo"}
  /\ profileEndpoint \in {"success", "401", "networkFault"}
  /\ store = InitialState
  \* the token a previous run left behind, in the store of this platform
  /\ \E persisted \in Tokens \cup {Null} :
       /\ localStorage = (IF platform = "web" THEN persisted ELSE Null)
       /\ secureStore = (IF platform = "native" THEN persisted ELSE Null)
  /\ pending = << >>
  /\ net = << >>
  /\ loadAuthPc = "mount"
  /\ foundToken = "unread"
  /\ getMeResult = "none"
  /\ apiCalled = FALSE
  /\ unhandled = {}
  /\ last = [op |-> "none", token |-> Null, user |-> Null, ok |-> TRUE]
  /\ faultBudget = budget
  /\ isLoggingOut = FALSE
  /\ logoutResult = "none"
  /\ segment \in routes
  /\ navigations = << >>
  /\ guardSeen = NoDeps

\* the app opened at its landing screen
InitWith(budget) == InitAt(budget, {"landing"})

Init == InitWith(MaxFaults)

\* the startup resolution and everything it starts
NextStartup ==
  \/ loadAuthStart
  \/ loadAuthGetItemSettled
  \/ loadAuthDeleteSettled
  \/ setTokenSettled
  \/ requestSettled
  \/ responseSuccess
  \/ responseNetworkFault
  \/ response401
  \/ response401Settled

\* the running app's session: startup, then the login and logout flows.
\* The router is left out: what it does here is to show the login screen
\* to unauthenticated users only and the profile screen to authenticated ones.
Next ==
  \/ NextStartup
  \/ ~store.isAuthenticated /\ handleLogin
  \/ handleGoogleLogin
  \/ store.isAuthenticated /\ performLogout
  \/ loginSettled
  \/ logoutSettled

Spec == Init /\ [][Next]_vars

SpecStartup == Init /\ [][NextStartup]_vars

\* each storage and network operation eventually settles
SpecStartupFair == SpecStartup /\ WF_vars(NextStartup)

\* the API client at work: the startup resolution's profile request, then
\* the screens' requests
NextApi ==
  \/ NextStartup
  \/ screenApiCall

SpecApi == Init /\ [][NextApi]_vars

\* the Session Store alone, login / logout / setToken called one after the
\* other, with no persistence fault
InitNoFaults == InitWith(0)

NextSeq ==
  \/ clientSetToken
  \/ clientLogin
  \/ clientLogout
  \/ setTokenSettled
  \/ loginSettled
  \/ logoutSettled

SpecSeq == InitNoFaults /\ [][NextSeq]_vars

\* the running app's session with the requests of its authenticated
\* screens, whose responses may arrive after the session has changed
NextLate ==
  \/ Next
  \/ store.isAuthenticated /\ screenApiCall

SpecLate == InitNoFaults /\ [][NextLate]_vars

\* the Session Store under pairs of overlapping setToken calls
NextOverlap ==
  \/ overlappingSetToken
  \/ setTokenSettled

SpecOverlap == Init /\ [][NextOverlap]_vars

\* the Session Store under all its mutators and the startup resolution
NextStore ==
  \/ NextSeq
  \/ clientSetUser
  \/ clientSetLoading
  \/ NextStartup

SpecStore == Init /\ [][NextStore]_vars

\* the Key-Value Store alone, its calls made one after the other, on either
\* platform, with no persistence fault
NextKV ==
  \/ kvGetItem
  \/ kvSetItem
  \/ kvDeleteItem
  \/ kvSettled

SpecKV == InitNoFaults /\ [][NextKV]_vars

\* the Session Store alone under all its mutators, called one after the
\* other, the platform being allowed persistence faults
NextSession ==
  \/ NextSeq
  \/ clientSetUser
  \/ clientSetLoading

SpecSession == Init /\ [][NextSession]_vars

\* the running app with its router: opened at any route (a deep link), the
\* guard effect, the user's navigation, and each flow started from the
\* screen that has its button once the flow before it has settled; no
\* persistence fault
InitRouting == InitAt(0, Segments)

Quiet == pending = << >> /\ net = << >>

loginScreen == segment = "(auth)" /\ Quiet /\ handleLogin

landingScreen == segment = "landing" /\ Quiet /\ handleGoogleLogin

profileScreen == segment = "(tabs)" /\ Quiet /\ performLogout

\* React runs the effects of a render before it renders again: the guard
\* effect has run on the current dependencies before the next macrotask
EffectsFlushed == guardSeen = Deps \/ ~MacrotaskReady

NextRouting ==
  \/ routeGuard
  \/ EffectsFlushed /\ NextStartup
  \/ EffectsFlushed /\ navigate
  \/ EffectsFlushed /\ loginScreen
  \/ EffectsFlushed /\ landingScreen
  \/ EffectsFlushed /\ profileScreen
  \/ EffectsFlushed /\ loginSettled
  \/ EffectsFlushed /\ logoutSettled

SpecRouting == InitRouting /\ [][NextRouting]_vars

\* the event loop runs every task that is ready and React runs the pending
\* effect after every render
SpecRoutingFair == SpecRouting /\ WF_vars(NextRouting)

\* a screen of the tabbed group fetches through the API client
tabsScreen == segment = "(tabs)" /\ Quiet /\ screenApiCall

\* the routed app with its screens' requests, the platform allowed to fault
InitLive == InitAt(MaxFaults, Segments)

NextLive ==
  \/ NextRouting
  \/ EffectsFlushed /\ tabsScreen

SpecLive == InitLive /\ [][NextLive]_vars

\* ------------------------------------------------------------------ claims
\* nothing the startup resolution started is still in flight
StartupSettled == loadAuthPc = "done" /\ pending = << >> /\ net = << >>

\* the platform has raised no persistence fault so far
NoPersistenceFault == faultBudget = MaxFaults

\* C1: under login / logout / setToken called one after the other with no
\* persistence fault, whenever the call made has settled isAuthenticated is
\* true exactly if the in-memory token is present.
C1_AuthIffTokenAfterSettle ==
  pending = << >> => (store.isAuthenticated <=> Truthy(store.token))

\* C1 witness: setToken(null) has settled on a Session a login had filled
C1_Witness ==
  /\ pending = << >>
  /\ last = [op |-> "setToken", token |-> Null, user |-> Null, ok |-> TRUE]
  /\ store.user \in Users
  /\ ~store.isAuthenticated

\* C2: in every reachable state of the Session Store, under all its
\* mutators and the startup resolution, isAuthenticated equals "token is
\* present".
C2_AuthIsTokenPresence == store.isAuthenticated <=> Truthy(store.token)

\* C3: a startup resolution that found a persisted token and whose profile
\* request failed with 401 has settled, no persistence fault having
\* occurred, with isLoading false and isAuthenticated false.
C3_FailsClosedOn401 ==
  (StartupSettled /\ Truthy(foundToken) /\ getMeResult = "401"
     /\ NoPersistenceFault)
  => (~store.isLoading /\ ~store.isAuthenticated)

\* C4: once everything started by a startup resolution whose profile request
\* faulted (401, network fault) has settled, no persistence fault having
\* occurred, the persisted token is absent and the in-memory user is absent.
C4_TokenDeletedOnFault ==
  (StartupSettled /\ getMeResult \in {"401", "networkFault"} /\ NoPersistenceFault)
  => (StorageRead = Null /\ store.user = Null)

\* C5: a startup resolution that found a persisted token, with a profile
\* endpoint that answers success and no persistence fault, settles with
\* isLoading false, isAuthenticated true, the returned profile as user and
\* the persisted token in memory and still persisted.
C5_RestoresSession ==
  (StartupSettled /\ Truthy(foundToken) /\ profileEndpoint = "success"
     /\ NoPersistenceFault)
  => /\ ~store.isLoading
     /\ store.isAuthenticated
     /\ store.user = Owner(foundToken)
     /\ store.token = foundToken
     /\ StorageRead = foundToken

\* C6: a startup resolution that read no persisted token ends with
\* isLoading false, isAuthenticated false, token and user absent, and no
\* call through the API client was made and no request is on the network.
C6_NoTokenNoRequest ==
  (loadAuthPc = "done" /\ foundToken = Null)
  => /\ store = [user |-> Null, token |-> Null, isLoading |-> FALSE,
                 isAuthenticated |-> FALSE]
     /\ ~apiCalled
     /\ net = << >>
     /\ pending = << >>

\* C6 witness: loadAuth has finished after reading null
C6_Witness == loadAuthPc = "done" /\ foundToken = Null /\ ~store.isLoading

\* C7: provided each storage and network operation eventually settles, the
\* startup resolution eventually sets isLoading to false, on every path.
C7_EventuallyNotLoading == <>(loadAuthPc = "done" /\ ~store.isLoading)

\* C7 witness: loadAuth has finished through the catch block in a run where
\* the platform raised a persistence fault
C7_Witness ==
  /\ loadAuthPc = "done"
  /\ ~store.isLoading
  /\ getMeResult \notin {"none", "success"}
  /\ ~NoPersistenceFault

\* C8: no fault raised during the startup resolution escapes it uncaught,
\* and a startup resolution during which a persistence fault was raised
\* settles unauthenticated.
C8_FaultsCaught ==
  /\ unhandled = {}
  /\ (StartupSettled /\ ~NoPersistenceFault) => ~store.isAuthenticated

\* C9: isLoading is true until loadAuth has finished, and once it is false
\* no step of the running app makes it true again.
C9_LoadingOnceFalseStaysFalse ==
  /\ [](~store.isLoading => loadAuthPc = "done")
  /\ [][~store.isLoading => ~store.isLoading']_vars

\* C9 witness: a login has settled after the startup resolution finished
C9_Witness ==
  /\ ~store.isLoading
  /\ loadAuthPc = "done"
  /\ last.op = "login"
  /\ last.ok

\* C10: after login(t,u) has settled without fault the persisted store read
\* through storage.getItem returns t, the API client's read of the token
\* returns t, and in memory token = t, user = u, isAuthenticated = true.
C10_LoginPersists ==
  (pending = << >> /\ last.op = "login" /\ last.ok)
  => /\ StorageRead = last.token
     /\ ApiRead = last.token
     /\ store.token = last.token
     /\ store.user = last.user
     /\ store.isAuthenticated

\* C11: every step in which a logout() settles without fault, whatever the
\* Session state it was called in, leaves the persisted store reading absent
\* for the token key, user and token absent in memory and isAuthenticated
\* false.
C11_LogoutClears ==
  [][(pending # << >> /\ pending' = << >> /\ last'.op = "logout" /\ last'.ok)
     => /\ StorageRead' = Null
        /\ store'.user = Null
        /\ store'.token = Null
        /\ ~store'.isAuthenticated]_vars

\* C11 witness: a logout has settled without fault in a run where an
\* earlier call had faulted
C11_Witness ==
  /\ pending = << >>
  /\ last.op = "logout"
  /\ last.ok
  /\ ~NoPersistenceFault
  /\ StorageRead = Null
  /\ store.user = Null

\* the local logout() of a performLogout is in flight
LogoutInFlight ==
  \E i \in DOMAIN pending :
    pending[i].k = "logout" /\ pending[i].caller = "performLogout"

C13_NoNavigationWhileLoading ==
  [][(store.isLoading /\ guardSeen' # guardSeen)
     => (segment' = segment /\ navigations' = navigations)]_vars

\* C13 witness: the guard has run while loading, with the Session
\* authenticated by loadAuth's setToken and the app at its landing screen
C13_Witness ==
  /\ guardSeen = [isAuthenticated |-> TRUE, segment |-> "landing",
                  isLoading |-> TRUE]
  /\ navigations = << >>

\* the guard effect has run on the current dependencies
GuardSettled == guardSeen = Deps

\* C14: once the guard has settled with isLoading false, isAuthenticated
\* false and the app outside the auth group, the forced navigations since
\* the dependencies were last changed from outside are exactly one, to the
\* landing segment.
C14_UnauthenticatedOneNavigation ==
  (GuardSettled /\ ~store.isLoading /\ ~store.isAuthenticated
     /\ segment # "(auth)")
  => navigations = << "landing" >>

\* the segments an authenticated user may stay on
Allowed == {"(tabs)", "post", "forum", "group", "resources", "premium"}

\* C15: an evaluation of the guard made with isLoading false and
\* isAuthenticated true issues no forced navigation on the main tabbed group
\* and on post, forum, group, resources, premium, and on any other segment
\* exactly one, to the main tabbed group; once the guard has settled the
\* forced navigations since the last outside change are none or that one.
C15_AuthenticatedNavigation ==
  /\ [][(guardSeen' # guardSeen /\ ~store.isLoading /\ store.isAuthenticated)
        => IF segment \in Allowed
           THEN segment' = segment /\ navigations' \in {<< >>, navigations}
           ELSE segment' = "(tabs)" /\ navigations' = << "(tabs)" >>]_vars
  /\ []((GuardSettled /\ ~store.isLoading /\ store.isAuthenticated)
         => /\ segment \in Allowed
            /\ navigations \in {<< >>, << "(tabs)" >>}
            /\ segment # "(tabs)" => navigations = << >>)

\* C15 witness: the guard has settled after moving an authenticated user
\* to the main tabbed group
C15_Witness ==
  /\ GuardSettled
  /\ ~store.isLoading
  /\ store.isAuthenticated
  /\ segment = "(tabs)"
  /\ navigations = << "(tabs)" >>

\* the calls of continuation k that are in flight in p
InFlight(p, k) == {i \in DOMAIN p : p[i].k = k}

\* C16: every step in which the request interceptor finishes, the platform
\* raising no persistence fault, sends the request, with the bearer header
\* exactly if the persisted store holds a token at that time and then with
\* that token as its value, whatever the in-memory token is; with no
\* persisted token it is sent without the header.
C16_HeaderFromPersistedToken ==
  [][(Cardinality(InFlight(pending', "request"))
        < Cardinality(InFlight(pending, "request"))
      /\ faultBudget' = faultBudget)
     => /\ Len(net') = Len(net) + 1
        /\ net'[Len(net')].authorization = Authorization(StorageRead)]_vars

\* the step settles the 401 handling of a call made by `caller`
Settles401(caller) ==
  /\ \E i \in InFlight(pending, "response401") : pending[i].caller = caller
  /\ \A i \in InFlight(pending', "response401") : pending'[i].caller # caller

Returns(method) == pending # << >> /\ pending' = << >> /\ last'.op = method

\* C18: on each backend, with no persistence fault: every getItem returns
\* without raising, and returns absent when the key is not set, the value v
\* when the call before it was setItem(k,v), and absent when the call before
\* it was deleteItem(k); every deleteItem, of an absent key included,
\* completes without fault.
C18_RoundTrip ==
  [][/\ Returns("getItem")
        => /\ last'.ok
           /\ StorageRead = Null => last'.token = Null
           /\ last.op = "setItem" => last'.token = last.token
           /\ last.op = "deleteItem" => last'.token = Null
     /\ Returns("deleteItem") => last'.ok
     /\ Returns("setItem") => last'.ok]_vars

\* C18 witness: getItem has returned the empty string, which only a
\* setItem of this run can have stored
C18_Witness ==
  /\ pending = << >>
  /\ last = [op |-> "getItem", token |-> "", user |-> Null, ok |-> TRUE]

C20_SetUserOnlyUser ==
  [][(pending' = pending /\ store'.user # store.user)
     => /\ store'.token = store.token
        /\ store'.isAuthenticated = store.isAuthenticated
        /\ store'.isLoading = store.isLoading
        /\ StorageRead' = StorageRead]_vars

\* C21: while a login(t,u) is in flight the in-memory Session changes in at
\* most one step, and that step makes token = t, user = u,
\* isAuthenticated = true and isLoading = false visible together: no state
\* produced by login has the flag without the user or the token without the
\* flag.
C21_LoginAtomic ==
  [][(InFlight(pending, "login") # {} /\ store' # store)
     => /\ last'.op = "login"
        /\ last'.ok
        /\ store' = [token |-> last'.token, user |-> last'.user,
                     isAuthenticated |-> TRUE, isLoading |-> FALSE]
        /\ store'.user \in Users]_vars

\* C21 witness: a login has settled on a Session that was still loading and
\* shows the four fields it set
C21_Witness ==
  /\ pending = << >>
  /\ last.op = "login"
  /\ last.ok
  /\ store = [token |-> last.token, user |-> last.user,
              isAuthenticated |-> TRUE, isLoading |-> FALSE]
  /\ loadAuthPc = "mount"

\* the in-flight calls of Session operation k that resume in this step
Resumes(k) ==
  {i \in DOMAIN pending : pending[i].k = k /\ pending' = Without(pending, i)}

C23_DeleteBeforeMemory ==
  [][(Truthy(store.token) /\ ~Truthy(store'.token))
     => /\ Resumes("logout") \cup Resumes("setToken") # {}
        /\ last'.op \in {"logout", "setToken"}
        /\ last'.token = Null
        /\ last'.ok
        /\ StorageRead' = Null]_vars

\* C23 witness: setToken(absent) has settled on a Session that keeps the
\* profile of an earlier login; neither copy holds a token
C23_Witness ==
  /\ pending = << >>
  /\ last.op = "setToken"
  /\ last.token = Null
  /\ last.ok
  /\ store.user \in Users
  /\ ~store.isLoading
  /\ store.token = Null
  /\ StorageRead = Null

\* the storage call awaited by in-flight entry i faults: on web it threw
\* when called, on native it fails as it completes in this step
Faulted(i) ==
  IF pending[i].sync THEN ~pending[i].ok ELSE faultBudget' < faultBudget

\* C24: when the persisted write or delete faults inside setToken, login or
\* logout, the operation rejects and the in-memory Session (user, token,
\* isAuthenticated, isLoading) is what it was before.
C24_FaultLeavesSession ==
  [][\A k \in {"setToken", "login", "logout"} : \A i \in Resumes(k) :
       Faulted(i) => /\ store' = store
                     /\ last'.op = k
                     /\ ~last'.ok]_vars

\* C24 witness: a login on a fresh Session was rejected by a faulting write;
\* the Session is the initial one and nothing was persisted
C24_Witness ==
  /\ pending = << >>
  /\ last.op = "login"
  /\ ~last.ok
  /\ faultBudget < MaxFaults
  /\ store = InitialState
  /\ StorageRead = Null

\* C25: when two setToken calls overlap, the outcome is last-write-wins on
\* both copies: once both have settled, the one that settled last having
\* succeeded, the in-memory token and the persisted token are the value of
\* that call, and the in-memory flag says whether a token is persisted.
C25_LastWriteWins ==
  (pending = << >> /\ last.op = "setToken" /\ last.ok)
  => /\ store.token = last.token
     /\ StorageRead = last.token
     /\ store.isAuthenticated = Truthy(StorageRead)

\* C25 witness: two overlapping calls have settled and both copies hold the
\* token of the call that settled last, which replaced a different one
C25_Witness ==
  /\ pending = << >>
  /\ last.op = "setToken"
  /\ last.ok
  /\ last.token = "t2"
  /\ store.token = "t2"
  /\ StorageRead = "t2"
  /\ store.isAuthenticated

\* the step receives a 401 response to a request made by `caller` and
\* starts the delete of the persisted token
Receives401(caller) ==
  /\ \E j \in DOMAIN net : net[j].caller = caller /\ net' = Without(net, j)
  /\ Cardinality(InFlight(pending', "response401"))
       > Cardinality(InFlight(pending, "response401"))

\* the step ends the 401 handling of a request made by `caller`
Ends401(caller) ==
  \E i \in Resumes("response401") : pending[i].caller = caller

GuardAtRest ==
  /\ GuardSettled
  /\ ~store.isLoading
  /\ IF store.isAuthenticated THEN segment \in Allowed
     ELSE segment \in {"(auth)", "landing"}

\* C27: Route Guard convergence. Once isLoading is false the guard comes to
\* rest, after at most two forced navigations since the dependencies were
\* last changed from outside; whenever it has settled with isLoading false
\* the segment is consistent with the flag (unauthenticated: auth group or
\* landing; authenticated: main tabbed group or post, forum, group,
\* resources, premium); and while the dependencies stay as they are at rest
\* no further navigation is issued.
C27_GuardConverges ==
  /\ (~store.isLoading) ~> GuardAtRest
  /\ []((GuardSettled /\ ~store.isLoading) => GuardAtRest)
  /\ [](Len(navigations) <= 2)
  /\ [][(GuardSettled /\ Deps' = Deps)
        => (navigations' = navigations /\ guardSeen' = guardSeen)]_vars

\* C27 witness: the guard rests on the landing screen after forcing an
\* unauthenticated user there
C27_Witness ==
  /\ GuardAtRest
  /\ ~store.isAuthenticated
  /\ segment = "landing"
  /\ Len(navigations) = 2
  /\ loadAuthPc = "done"

C29_SameRecord ==
  (pending = << >> /\ last.op \in {"setToken", "login", "logout"} /\ last.ok)
  => /\ StorageRead = last.token
     /\ ApiRead = StorageRead

\* C30: in every state of the running app with isLoading false and
\* isAuthenticated true the in-memory user is present, whichever path
\* (startup resolution, password login, OAuth login) authenticated the
\* session.
C30_AuthenticatedHasUser ==
  (~store.isLoading /\ store.isAuthenticated) => store.user \in Users

====
